---- MODULE Spec2Model ----
(***************************************************************************)
(* Model of the 2048 rules engine (src/src/core.py) and of its two         *)
(* callers, the text-mode driver (src/src/cli_driver.py) and the HTTP      *)
(* layer (src/src/api.py).                                                 *)
(*                                                                         *)
(* A board is a sequence of rows, a row a sequence of integers.  Python    *)
(* indexes from 0, the model from 1: cell (r, c) of the source is          *)
(* board[r + 1][c + 1] here.  Functions that return a tuple return a       *)
(* record.  The draws of the random module are parameters of the           *)
(* operators that use them, and the actions choose them with \E.           *)
(***************************************************************************)
EXTENDS Integers, Sequences, FiniteSets, TLC

\* ------------------------------------------------------------------ bounds
\* Boards given to the core functions have 1..MaxSize rows.
MaxSize == 3
\* Cells of those boards are 0 or 2^k for k in 1..MaxExp.
MaxExp == 2
\* Board sizes played by the drivers: BOARD_SIZE of the text-mode driver is
\* any of 1..MaxGameSize, NewGameSettings.size any of 2..MaxGameSize.
MaxGameSize == 2
MaxLen == 4

\* ------------------------------------------------------- program constants
\* Default win tile of check_for_win / determine_game_status.
DEFAULT_WIN_TILE == 2048

\* class GameProgressState
IN_PROGRESS == "IN_PROGRESS"
GAME_OVER == "GAME_OVER"
GAME_WON == "GAME_WON"

\* class DIRECTION, in the order of the enumeration
UP == "UP"
DOWN == "DOWN"
LEFT == "LEFT"
RIGHT == "RIGHT"
DIRECTION == <<UP, DOWN, LEFT, RIGHT>>

\* ------------------------------------------------------ board helper functions

\* A sequence written as a function, as the tuple it equals.  TLC evaluates a
\* function expression anew at each application, a tuple once.
Tuple(s) == s \o <<>>

\* get_board_size raises ValueError unless the board is a non-empty square.
IsSquare(board) ==
    /\ Len(board) > 0
    /\ \A r \in 1..Len(board) : Len(board[r]) = Len(board)

get_board_size(board) == Len(board)

\* The cells (row, col) of an n x n board in row-major order.
RowMajor(n) == [i \in 1..(n * n) |-> <<((i - 1) \div n) + 1, ((i - 1) % n) + 1>>]

get_empty_cells(board) ==
    LET n == get_board_size(board)
    IN  SelectSeq(RowMajor(n), LAMBDA rc : board[rc[1]][rc[2]] = 0)

\* Mutant: the tile is put at the pick-th cell of the board, not at the
\* pick-th empty cell.
add_random_tile_any_cell(board, pick, four) ==
    LET empty_cells == get_empty_cells(board)
        all_cells == RowMajor(get_board_size(board))
    IN  IF Len(empty_cells) = 0
        THEN [board |-> board, added |-> FALSE]
        ELSE LET row == all_cells[pick][1]
                 col == all_cells[pick][2]
             IN  [board |-> [board EXCEPT ![row][col] = IF four THEN 4 ELSE 2],
                  added |-> TRUE]

\* pick is the index random.choice draws in empty_cells, four is the outcome
\* of random.random() < 0.1.
add_random_tile(board, pick, four) ==
    LET empty_cells == get_empty_cells(board)
    IN  IF Len(empty_cells) = 0
        THEN [board |-> board, added |-> FALSE]
        ELSE LET row == empty_cells[pick][1]
                 col == empty_cells[pick][2]
             IN  [board |-> [board EXCEPT ![row][col] = IF four THEN 4 ELSE 2],
                  added |-> TRUE]

\* The draws add_random_tile can make on a board: one pair when there is no
\* empty cell (no draw is made), else every empty cell with every value.
Draws(board) ==
    LET k == Len(get_empty_cells(board))
    IN  IF k = 0 THEN {<<1, FALSE>>} ELSE (1..k) \X BOOLEAN

\* initialize_board for a positive size; d1 and d2 are the draws of the two
\* add_random_tile calls.
initialize_board(size, d1, d2) ==
    LET empty == Tuple([r \in 1..size |-> Tuple([c \in 1..size |-> 0])])
        first == add_random_tile(empty, d1[1], d1[2]).board
        second == add_random_tile(first, d2[1], d2[2]).board
    IN  [board |-> second, score |-> 0, state |-> IN_PROGRESS]

\* ------------------------------------------------------------ line manipulation

_compress_line(line) ==
    LET n == Len(line)
        kept == SelectSeq(line, LAMBDA i : i # 0)
        new_line_compressed == kept \o [i \in 1..(n - Len(kept)) |-> 0]
    IN  [line |-> new_line_compressed, changed |-> new_line_compressed # line]

\* Mutant: the merged partner is not consumed (read_idx advances by one).
RECURSIVE MergeLoop_partner_kept(_, _, _, _, _)
MergeLoop_partner_kept(line, read_idx, write_idx, new_line_merged, score_increase) ==
    LET n == Len(line)
    IN  IF read_idx > n
        THEN [line |-> new_line_merged, score |-> score_increase]
        ELSE LET current_val == line[read_idx]
             IN  IF current_val = 0
                 THEN MergeLoop_partner_kept(line, read_idx + 1, write_idx,
                                             new_line_merged, score_increase)
                 ELSE IF read_idx + 1 <= n /\ current_val = line[read_idx + 1]
                 THEN MergeLoop_partner_kept(
                          line, read_idx + 1, write_idx + 1,
                          [new_line_merged EXCEPT ![write_idx] = current_val * 2],
                          score_increase + current_val * 2)
                 ELSE MergeLoop_partner_kept(
                          line, read_idx + 1, write_idx + 1,
                          [new_line_merged EXCEPT ![write_idx] = current_val],
                          score_increase)

\* Mutant: any two adjacent tiles merge into their sum, equal or not.
RECURSIVE MergeLoop_unequal(_, _, _, _, _)
MergeLoop_unequal(line, read_idx, write_idx, new_line_merged, score_increase) ==
    LET n == Len(line)
    IN  IF read_idx > n
        THEN [line |-> new_line_merged, score |-> score_increase]
        ELSE LET current_val == line[read_idx]
             IN  IF current_val = 0
                 THEN MergeLoop_unequal(line, read_idx + 1, write_idx,
                                        new_line_merged, score_increase)
                 ELSE IF read_idx + 1 <= n /\ line[read_idx + 1] # 0
                 THEN MergeLoop_unequal(
                          line, read_idx + 2, write_idx + 1,
                          [new_line_merged EXCEPT
                              ![write_idx] = current_val + line[read_idx + 1]],
                          score_increase + current_val + line[read_idx + 1])
                 ELSE MergeLoop_unequal(
                          line, read_idx + 1, write_idx + 1,
                          [new_line_merged EXCEPT ![write_idx] = current_val],
                          score_increase)

\* The while loop of _merge_line; read_idx and write_idx are 1-based.
RECURSIVE MergeLoop(_, _, _, _, _)
MergeLoop(line, read_idx, write_idx, new_line_merged, score_increase) ==
    LET n == Len(line)
    IN  IF read_idx > n
        THEN [line |-> new_line_merged, score |-> score_increase]
        ELSE LET current_val == line[read_idx]
             IN  IF current_val = 0
                 THEN MergeLoop(line, read_idx + 1, write_idx, new_line_merged,
                                score_increase)
                 ELSE IF read_idx + 1 <= n /\ current_val = line[read_idx + 1]
                 THEN MergeLoop(line, read_idx + 2, write_idx + 1,
                                [new_line_merged EXCEPT ![write_idx] = current_val * 2],
                                score_increase + current_val * 2)
                 ELSE MergeLoop(line, read_idx + 1, write_idx + 1,
                                [new_line_merged EXCEPT ![write_idx] = current_val],
                                score_increase)

_merge_line(line) ==
    LET n == Len(line)
        res == MergeLoop(line, 1, 1, Tuple([i \in 1..n |-> 0]), 0)
    IN  [line |-> res.line, score |-> res.score, changed |-> res.line # line]

\* Mutant: the changed flag is the one of the merge stage.
_process_single_line_leftwise_merge_flag(line) ==
    LET compressed_line == _compress_line(line).line
        merged == _merge_line(compressed_line)
        final_processed_line == _compress_line(merged.line).line
    IN  [line |-> final_processed_line,
         score |-> merged.score,
         changed |-> merged.changed]

\* Mutant: the changed flag compares a list with a tuple and is always true.
_process_single_line_leftwise_list_vs_tuple(line) ==
    LET compressed_line == _compress_line(line).line
        merged == _merge_line(compressed_line)
        final_processed_line == _compress_line(merged.line).line
    IN  [line |-> final_processed_line,
         score |-> merged.score,
         changed |-> TRUE]

\* Mutant: the line is merged a second time after the final compression.
_process_single_line_leftwise_cascade(line) ==
    LET compressed_line == _compress_line(line).line
        merged == _merge_line(compressed_line)
        again == _merge_line(_compress_line(merged.line).line)
        final_processed_line == _compress_line(again.line).line
    IN  [line |-> final_processed_line,
         score |-> merged.score + again.score,
         changed |-> final_processed_line # line]

_process_single_line_leftwise(line) ==
    LET compressed_line == _compress_line(line).line
        merged == _merge_line(compressed_line)
        final_processed_line == _compress_line(merged.line).line
    IN  [line |-> final_processed_line,
         score |-> merged.score,
         changed |-> final_processed_line # line]

\* ---------------------------------------------------------- board transformations

transpose_board(board) ==
    LET n == get_board_size(board)
    IN  Tuple([c \in 1..n |-> Tuple([r \in 1..n |-> board[r][c]])])

reverse_rows(board) ==
    Tuple([r \in 1..Len(board) |->
        Tuple([c \in 1..Len(board[r]) |-> board[r][Len(board[r]) + 1 - c]])])

\* ------------------------------------------------------------- move processing

RECURSIVE SumSeq(_)
SumSeq(s) == IF Len(s) = 0 THEN 0 ELSE Head(s) + SumSeq(Tail(s))

\* Mutant: the flag of the board is the flag of the row processed last.
_apply_left_processing_to_all_lines_last_flag(current_board_state) ==
    LET n == get_board_size(current_board_state)
        done == Tuple([r \in 1..n |->
                          _process_single_line_leftwise(current_board_state[r])])
    IN  [board |-> Tuple([r \in 1..n |->
                       IF done[r].changed THEN done[r].line ELSE current_board_state[r]]),
         score |-> SumSeq([r \in 1..n |-> IF done[r].changed THEN done[r].score ELSE 0]),
         changed |-> n > 0 /\ done[n].changed]

_apply_left_processing_to_all_lines(current_board_state) ==
    LET n == get_board_size(current_board_state)
        done == Tuple([r \in 1..n |->
                          _process_single_line_leftwise(current_board_state[r])])
    IN  [board |-> Tuple([r \in 1..n |->
                       IF done[r].changed THEN done[r].line ELSE current_board_state[r]]),
         score |-> SumSeq([r \in 1..n |-> IF done[r].changed THEN done[r].score ELSE 0]),
         changed |-> \E r \in 1..n : done[r].changed]

\* What a call that raises ValueError leaves: no result, the argument as it was.
ValueError(board) ==
    [raised |-> TRUE, input |-> board, board |-> <<>>, score |-> 0,
     changed |-> FALSE]

\* Mutant: a move to the right returns the processed board still reversed.
process_move_keeps_reversed(board, direction) ==
    IF direction = LEFT
    THEN LET p == _apply_left_processing_to_all_lines(board)
         IN  [raised |-> FALSE, input |-> board, board |-> p.board, score |-> p.score,
              changed |-> p.changed]
    ELSE IF direction = RIGHT
    THEN LET p == _apply_left_processing_to_all_lines(reverse_rows(board))
         IN  [raised |-> FALSE, input |-> board,
              board |-> IF p.changed THEN p.board ELSE board,
              score |-> p.score, changed |-> p.changed]
    ELSE IF direction = UP
    THEN LET p == _apply_left_processing_to_all_lines(transpose_board(board))
         IN  [raised |-> FALSE, input |-> board,
              board |-> IF p.changed THEN transpose_board(p.board) ELSE board,
              score |-> p.score, changed |-> p.changed]
    ELSE IF direction = DOWN
    THEN LET p == _apply_left_processing_to_all_lines(
                      reverse_rows(transpose_board(board)))
         IN  [raised |-> FALSE, input |-> board,
              board |-> IF p.changed
                        THEN transpose_board(reverse_rows(p.board))
                        ELSE board,
              score |-> p.score, changed |-> p.changed]
    ELSE ValueError(board)

\* Mutant: a move down undoes its two transforms in the wrong order.
process_move_inverse_swapped(board, direction) ==
    IF direction = LEFT
    THEN LET p == _apply_left_processing_to_all_lines(board)
         IN  [raised |-> FALSE, input |-> board, board |-> p.board, score |-> p.score,
              changed |-> p.changed]
    ELSE IF direction = RIGHT
    THEN LET p == _apply_left_processing_to_all_lines(reverse_rows(board))
         IN  [raised |-> FALSE, input |-> board,
              board |-> IF p.changed THEN reverse_rows(p.board) ELSE board,
              score |-> p.score, changed |-> p.changed]
    ELSE IF direction = UP
    THEN LET p == _apply_left_processing_to_all_lines(transpose_board(board))
         IN  [raised |-> FALSE, input |-> board,
              board |-> IF p.changed THEN transpose_board(p.board) ELSE board,
              score |-> p.score, changed |-> p.changed]
    ELSE IF direction = DOWN
    THEN LET p == _apply_left_processing_to_all_lines(
                      reverse_rows(transpose_board(board)))
         IN  [raised |-> FALSE, input |-> board,
              board |-> IF p.changed
                        THEN reverse_rows(transpose_board(p.board))
                        ELSE board,
              score |-> p.score, changed |-> p.changed]
    ELSE ValueError(board)

\* Mutant: a move to the left processes the rows without asking for the size.
process_move_left_unchecked(board, direction) ==
    IF direction = LEFT
    THEN LET p == _apply_left_processing_to_all_lines(board)
         IN  [raised |-> FALSE, input |-> board, board |-> p.board,
              score |-> p.score, changed |-> p.changed]
    ELSE IF direction \in {RIGHT, UP, DOWN} /\ IsSquare(board)
    THEN process_move_keeps_reversed(board, direction)
    ELSE ValueError(board)

\* The field input is the caller's board after the call: the function works on
\* copies (board_to_operate_on, processed_board, the lists the transforms
\* build) and writes to none of the caller's lists.  get_board_size raises
\* ValueError in _apply_left_processing_to_all_lines and in transpose_board.
process_move(board, direction) ==
    IF direction = LEFT
    THEN IF ~IsSquare(board)
         THEN ValueError(board)
         ELSE LET p == _apply_left_processing_to_all_lines(board)
              IN  [raised |-> FALSE, input |-> board, board |-> p.board,
                   score |-> p.score, changed |-> p.changed]
    ELSE IF direction = RIGHT
    THEN IF ~IsSquare(reverse_rows(board))
         THEN ValueError(board)
         ELSE LET p == _apply_left_processing_to_all_lines(reverse_rows(board))
              IN  [raised |-> FALSE, input |-> board,
                   board |-> IF p.changed THEN reverse_rows(p.board) ELSE board,
                   score |-> p.score, changed |-> p.changed]
    ELSE IF direction = UP
    THEN IF ~IsSquare(board)
         THEN ValueError(board)
         ELSE LET p == _apply_left_processing_to_all_lines(transpose_board(board))
              IN  [raised |-> FALSE, input |-> board,
                   board |-> IF p.changed THEN transpose_board(p.board) ELSE board,
                   score |-> p.score, changed |-> p.changed]
    ELSE IF direction = DOWN
    THEN IF ~IsSquare(board)
         THEN ValueError(board)
         ELSE LET p == _apply_left_processing_to_all_lines(
                           reverse_rows(transpose_board(board)))
              IN  [raised |-> FALSE, input |-> board,
                   board |-> IF p.changed
                             THEN transpose_board(reverse_rows(p.board))
                             ELSE board,
                   score |-> p.score, changed |-> p.changed]
    ELSE ValueError(board)

\* ------------------------------------------------------------ game state checks

check_for_win(board, win_tile) ==
    LET n == get_board_size(board)
    IN  \E r \in 1..n : \E c \in 1..n : board[r][c] = win_tile

is_move_possible_in_direction(board, direction) ==
    LET n == get_board_size(board)
    IN  \E r_idx \in 1..n : \E c_idx \in 1..n :
           /\ board[r_idx][c_idx] # 0
           /\ \/ /\ direction = UP
                 /\ r_idx > 1
                 /\ \/ board[r_idx - 1][c_idx] = 0
                    \/ board[r_idx - 1][c_idx] = board[r_idx][c_idx]
              \/ /\ direction = DOWN
                 /\ r_idx < n
                 /\ \/ board[r_idx + 1][c_idx] = 0
                    \/ board[r_idx + 1][c_idx] = board[r_idx][c_idx]
              \/ /\ direction = LEFT
                 /\ c_idx > 1
                 /\ \/ board[r_idx][c_idx - 1] = 0
                    \/ board[r_idx][c_idx - 1] = board[r_idx][c_idx]
              \/ /\ direction = RIGHT
                 /\ c_idx < n
                 /\ \/ board[r_idx][c_idx + 1] = 0
                    \/ board[r_idx][c_idx + 1] = board[r_idx][c_idx]

\* Mutant: the loop returns after the first direction of the enumeration.
is_any_move_possible_first_only(board) ==
    is_move_possible_in_direction(board, DIRECTION[1])

is_any_move_possible(board) ==
    \E i \in 1..Len(DIRECTION) : is_move_possible_in_direction(board, DIRECTION[i])

\* Mutant: the loss check comes before the win check.
determine_game_status_loss_first(board, win_tile) ==
    IF Len(get_empty_cells(board)) = 0 /\ ~is_any_move_possible(board)
    THEN GAME_OVER
    ELSE IF check_for_win(board, win_tile)
    THEN GAME_WON
    ELSE IN_PROGRESS

\* Mutant: a board without a winning tile is in progress, stuck or not.
determine_game_status_no_loss(board, win_tile) ==
    IF check_for_win(board, win_tile)
    THEN GAME_WON
    ELSE IN_PROGRESS

determine_game_status(board, win_tile) ==
    IF check_for_win(board, win_tile)
    THEN GAME_WON
    ELSE IF Len(get_empty_cells(board)) = 0 /\ ~is_any_move_possible(board)
    THEN GAME_OVER
    ELSE IF ~is_any_move_possible(board) /\ Len(get_empty_cells(board)) = 0
    THEN GAME_OVER
    ELSE IF is_any_move_possible(board) \/ Len(get_empty_cells(board)) # 0
    THEN IN_PROGRESS
    ELSE GAME_OVER

\* ------------------------------------------------------------------- state

VARIABLES
    board,       \* the board the caller holds (current_board / GameStateData.board)
    score,       \* the caller's accumulated score
    progress,    \* the caller's GameProgressState
    win_tile,    \* WIN_CONDITION_TILE / GameStateData.win_tile
    board_size,  \* BOARD_SIZE / GameStateData.board_size, 0 before a game starts
    pc,          \* "core": calling core functions directly, "raised": ended by
                 \* a ValueError; "start", "main", "api", "done": position of
                 \* a driver
    last,        \* the most recent call: its arguments and what it returned
    prev         \* operation, direction, score and flag of the call before it, for
                 \* the calls of the core functions (the drivers keep none)

vars == <<board, score, progress, win_tile, board_size, pc, last, prev>>

NoCall ==
    [op |-> "none", board |-> <<>>, direction |-> "none", size |-> 0,
     win_tile |-> 0, out |-> <<>>, score |-> 0, flag |-> FALSE,
     added |-> FALSE, status |-> "none", raised |-> FALSE, input |-> <<>>]

Summary(call) ==
    [op |-> call.op, direction |-> call.direction, score |-> call.score,
     flag |-> call.flag]

\* ------------------------------------------------------------------ inputs

Pow2(k) == 2 ^ k
Tiles == {0} \cup {Pow2(k) : k \in 1..MaxExp}
BoardsOfSize(n) == [1..n -> [1..n -> Tiles]]
Boards == UNION {BoardsOfSize(n) : n \in 1..MaxSize}
\* Win tiles: every tile value a board can hold, and one it cannot.
WinTiles == {Pow2(k) : k \in 1..(MaxExp + 1)}
Directions == {DIRECTION[i] : i \in 1..Len(DIRECTION)}
\* A value that is no member of DIRECTION.
InvalidDirection == "NONE"
\* Lists of at most MaxSize rows of at most MaxSize cells: the boards, and the
\* empty, the rectangular and the ragged grids that are no boards.
Rows == UNION {[1..l -> Tiles] : l \in 0..MaxSize}
Grids == UNION {[1..k -> Rows] : k \in 0..MaxSize}
\* Lines of at most MaxLen cells.
Lines == UNION {[1..l -> Tiles] : l \in 0..MaxLen}

\* ---------------------------------------------- the core functions, called alone

InitCore ==
    /\ board \in Boards
    /\ score = 0
    /\ progress = IN_PROGRESS
    /\ win_tile = DEFAULT_WIN_TILE
    /\ board_size = get_board_size(board)
    /\ pc = "core"
    /\ last = NoCall
    /\ prev = Summary(NoCall)

\* A caller that holds any grid, well formed or not.
InitArgs ==
    /\ board \in Grids
    /\ score = 0
    /\ progress = IN_PROGRESS
    /\ win_tile = DEFAULT_WIN_TILE
    /\ board_size = Len(board)
    /\ pc = "core"
    /\ last = NoCall
    /\ prev = Summary(NoCall)

\* A caller that holds one line of any length up to MaxLen, as the single row
\* of its grid.
InitLine ==
    /\ board \in {<<line>> : line \in Lines}
    /\ score = 0
    /\ progress = IN_PROGRESS
    /\ win_tile = DEFAULT_WIN_TILE
    /\ board_size = 1
    /\ pc = "line"
    /\ last = NoCall
    /\ prev = Summary(NoCall)

\* A caller that holds no board yet.
InitFresh ==
    /\ board = <<>>
    /\ score = 0
    /\ progress = IN_PROGRESS
    /\ win_tile = DEFAULT_WIN_TILE
    /\ board_size = 0
    /\ pc = "core"
    /\ last = NoCall
    /\ prev = Summary(NoCall)

\* process_move(board, direction); the caller keeps the returned board.  A
\* ValueError is not caught: it ends the caller, which keeps the board it had.
Call_process_move(direction) ==
    /\ pc = "core"
    /\ \E res \in {process_move(board, direction)} :
           /\ last' = [NoCall EXCEPT !.op = "process_move", !.board = board,
                                     !.direction = direction, !.out = res.board,
                                     !.score = res.score, !.flag = res.changed,
                                     !.raised = res.raised, !.input = res.input]
           /\ board' = IF res.raised THEN board ELSE res.board
           /\ pc' = IF res.raised THEN "raised" ELSE pc
    /\ prev' = Summary(last)
    /\ UNCHANGED <<score, progress, win_tile, board_size>>

\* determine_game_status(board, win_tile), with win_tile any of WinTiles.
Call_determine_game_status(tile) ==
    /\ pc = "core"
    /\ last' = [NoCall EXCEPT !.op = "determine_game_status", !.board = board,
                              !.win_tile = tile, !.out = board,
                              !.status = determine_game_status(board, tile)]
    /\ prev' = Summary(last)
    /\ UNCHANGED <<board, score, progress, win_tile, board_size, pc>>

\* add_random_tile(board) with the draw d; the caller keeps the returned board.
Call_add_random_tile(d) ==
    /\ pc = "core"
    /\ board # <<>>
    /\ \E res \in {add_random_tile(board, d[1], d[2])} :
           /\ last' = [NoCall EXCEPT !.op = "add_random_tile", !.board = board,
                                     !.out = res.board, !.flag = res.added,
                                     !.added = res.added]
           /\ board' = res.board
    /\ prev' = Summary(last)
    /\ UNCHANGED <<score, progress, win_tile, board_size, pc>>

\* initialize_board(size) for a positive size, with the draws d1 and d2 of its
\* two add_random_tile calls.  It is the call of a caller that holds no board
\* yet, and the caller keeps the returned board.
Call_initialize_board(size) ==
    /\ pc = "core"
    /\ board = <<>>
    /\ LET empty == Tuple([r \in 1..size |-> Tuple([c \in 1..size |-> 0])])
       IN  \E d1 \in Draws(empty) :
           \E d2 \in Draws(add_random_tile(empty, d1[1], d1[2]).board) :
           \E res \in {initialize_board(size, d1, d2)} :
               /\ last' = [NoCall EXCEPT !.op = "initialize_board", !.size = size,
                                         !.out = res.board, !.score = res.score,
                                         !.status = res.state]
               /\ board' = res.board
               /\ board_size' = size
    /\ prev' = Summary(last)
    /\ UNCHANGED <<score, progress, win_tile, pc>>

NextMove == \E direction \in Directions : Call_process_move(direction)

\* _process_single_line_leftwise(line) as the row loop calls it: a changed line
\* replaces the row and its score is added to the total.
Call_process_single_line_leftwise ==
    /\ pc = "line"
    /\ \E res \in {_process_single_line_leftwise(board[1])} :
           /\ last' = [NoCall EXCEPT !.op = "line", !.board = board,
                                     !.out = <<res.line>>, !.score = res.score,
                                     !.flag = res.changed, !.input = board]
           /\ board' = IF res.changed THEN <<res.line>> ELSE board
           /\ score' = IF res.changed THEN score + res.score ELSE score
    /\ prev' = Summary(last)
    /\ UNCHANGED <<progress, win_tile, board_size, pc>>

NextLine == Call_process_single_line_leftwise

NextArgs ==
    \E direction \in Directions \cup {InvalidDirection} : Call_process_move(direction)

NextStatus == \E tile \in WinTiles : Call_determine_game_status(tile)

NextTile ==
    \/ \E d \in (IF board = <<>> THEN {} ELSE Draws(board)) : Call_add_random_tile(d)
    \/ \E size \in 1..MaxSize : Call_initialize_board(size)

\* Boards of every content, moved any number of times.
SpecMove == InitCore /\ [][NextMove]_vars

\* Grids of every shape and content, moved in every direction and in none.
SpecArgs == InitArgs /\ [][NextArgs]_vars

\* Boards of every content, classified for every win tile.
SpecStatus == InitCore /\ [][NextStatus]_vars

\* Boards of every content, and the board initialize_board makes for a caller
\* that has none, filled tile by tile.
SpecTile == (InitCore \/ InitFresh) /\ [][NextTile]_vars

\* ------------------------------------------------------------------ drivers
\* cli_driver.main and the two endpoints of api.py.  The HTTP layer keeps no
\* state: the variables are what its client holds, taken from each response
\* and sent back with the next request.

Init ==
    /\ board = <<>>
    /\ score = 0
    /\ progress = "none"
    /\ win_tile = 0
    /\ board_size = 0
    /\ pc = "start"
    /\ last = NoCall
    /\ prev = Summary(NoCall)

\* cli_driver.main up to the loop, for a BOARD_SIZE and a WIN_CONDITION_TILE.
main_start(size, tile) ==
    /\ pc = "start"
    /\ LET empty == Tuple([r \in 1..size |-> Tuple([c \in 1..size |-> 0])])
       IN  \E d1 \in Draws(empty) :
           \E d2 \in Draws(add_random_tile(empty, d1[1], d1[2]).board) :
           \E res \in {initialize_board(size, d1, d2)} :
               /\ board' = res.board
               /\ score' = res.score
               /\ progress' = res.state
               /\ last' = [NoCall EXCEPT !.op = "main_start", !.size = size,
                                         !.win_tile = tile, !.out = res.board,
                                         !.score = res.score, !.status = res.state]
    /\ win_tile' = tile
    /\ board_size' = size
    /\ pc' = "main"
    /\ UNCHANGED prev

\* One iteration of the loop of cli_driver.main on a W/A/S/D input; d is the
\* draw of add_random_tile.  (Any other input but Q changes nothing.)
main_move(direction, d) ==
    /\ pc = "main"
    /\ progress = IN_PROGRESS
    /\ \E moved \in {process_move(board, direction)} :
           IF moved.changed
           THEN \E tile \in {add_random_tile(moved.board, d[1], d[2])} :
                    /\ board' = tile.board
                    /\ score' = score + moved.score
                    /\ progress' = determine_game_status(tile.board, win_tile)
                    /\ last' = [NoCall EXCEPT
                                   !.op = "main_move", !.board = board,
                                   !.direction = direction, !.win_tile = win_tile,
                                   !.out = moved.board, !.score = moved.score,
                                   !.flag = TRUE, !.added = tile.added,
                                   !.status = determine_game_status(tile.board, win_tile)]
           ELSE /\ progress' = determine_game_status(board, win_tile)
                /\ last' = [NoCall EXCEPT
                               !.op = "main_move", !.board = board,
                               !.direction = direction, !.win_tile = win_tile,
                               !.out = moved.board, !.score = moved.score,
                               !.status = determine_game_status(board, win_tile)]
                /\ UNCHANGED <<board, score>>
    /\ UNCHANGED <<win_tile, board_size, pc, prev>>

\* The input Q: break.
main_quit ==
    /\ pc = "main"
    /\ progress = IN_PROGRESS
    /\ pc' = "done"
    /\ UNCHANGED <<board, score, progress, win_tile, board_size, last, prev>>

\* The loop condition fails: the game ended.
main_end ==
    /\ pc = "main"
    /\ progress # IN_PROGRESS
    /\ pc' = "done"
    /\ UNCHANGED <<board, score, progress, win_tile, board_size, last, prev>>

\* POST /game/new with settings the validation accepts (size > 1, win_tile > 0).
start_new_game(size, tile) ==
    /\ pc = "start"
    /\ size > 1
    /\ tile > 0
    /\ LET empty == Tuple([r \in 1..size |-> Tuple([c \in 1..size |-> 0])])
       IN  \E d1 \in Draws(empty) :
           \E d2 \in Draws(add_random_tile(empty, d1[1], d1[2]).board) :
           \E res \in {initialize_board(size, d1, d2)} :
               /\ board' = res.board
               /\ score' = res.score
               /\ progress' = determine_game_status(res.board, tile)
               /\ last' = [NoCall EXCEPT
                              !.op = "start_new_game", !.size = size,
                              !.win_tile = tile, !.out = res.board,
                              !.score = res.score,
                              !.status = determine_game_status(res.board, tile)]
    /\ win_tile' = tile
    /\ board_size' = size
    /\ pc' = "api"
    /\ UNCHANGED prev

\* POST /game/move with the state the client holds; d is the draw of
\* add_random_tile.  The endpoint accepts any state; the client is the loop
\* of the external interface, which asks for moves until a terminal state.
make_move(direction, d) ==
    /\ pc = "api"
    /\ progress = IN_PROGRESS
    /\ \E moved \in {process_move(board, direction)} :
           IF moved.changed
           THEN \E tile \in {add_random_tile(moved.board, d[1], d[2])} :
                \E final_board \in {IF tile.added THEN tile.board ELSE moved.board} :
                    /\ board' = final_board
                    /\ score' = score + moved.score
                    /\ progress' = determine_game_status(final_board, win_tile)
                    /\ last' = [NoCall EXCEPT
                                   !.op = "make_move", !.board = board,
                                   !.direction = direction, !.win_tile = win_tile,
                                   !.out = moved.board, !.score = moved.score,
                                   !.flag = TRUE, !.added = tile.added,
                                   !.status = determine_game_status(final_board, win_tile)]
           ELSE /\ progress' = determine_game_status(board, win_tile)
                /\ last' = [NoCall EXCEPT
                               !.op = "make_move", !.board = board,
                               !.direction = direction, !.win_tile = win_tile,
                               !.out = moved.board, !.score = moved.score,
                               !.status = determine_game_status(board, win_tile)]
                /\ UNCHANGED <<board, score>>
    /\ UNCHANGED <<win_tile, board_size, pc, prev>>

\* The draws of the add_random_tile call that follows a move in a direction;
\* none where no driver is in its loop.
DrawsAfter(direction) ==
    IF pc \in {"main", "api"}
    THEN Draws(process_move(board, direction).board)
    ELSE {}

Next ==
    \/ \E size \in 1..MaxGameSize : \E tile \in WinTiles : main_start(size, tile)
    \/ \E direction \in Directions : \E d \in DrawsAfter(direction) :
           main_move(direction, d)
    \/ main_quit
    \/ main_end
    \/ \E size \in 1..MaxGameSize : \E tile \in WinTiles : start_new_game(size, tile)
    \/ \E direction \in Directions : \E d \in DrawsAfter(direction) :
           make_move(direction, d)

Spec == Init /\ [][Next]_vars

\* Boards of every content moved by direct calls, and the games of the drivers.
SpecRoom ==
    (InitCore \/ Init) /\ [][NextMove \/ Next]_vars

\* cli_driver.main with a player who never quits: the winning tiles of Next and
\* the one main plays for.
NextPlay ==
    \/ \E size \in 1..MaxGameSize : \E tile \in WinTiles \cup {DEFAULT_WIN_TILE} :
           main_start(size, tile)
    \/ \E direction \in Directions : \E d \in DrawsAfter(direction) :
           main_move(direction, d)
    \/ main_end

\* The move of a player who enters a direction in which a move is possible
\* whenever there is one, and any direction when there is none.
PlayerMove ==
    \E direction \in Directions : \E d \in DrawsAfter(direction) :
        /\ main_move(direction, d)
        /\ is_any_move_possible(board) => is_move_possible_in_direction(board, direction)

\* main runs from its first line to the end of its loop (it waits for nothing
\* but input()): weak fairness of its start and of its end.  The player keeps
\* entering such moves: weak fairness of PlayerMove, written out.  In the loop
\* a PlayerMove that changes the state is always possible (a move that changes
\* the board or the status, or else a direction other than the last one), so
\* that ENABLED <<PlayerMove>>_vars is pc = "main" /\ progress = IN_PROGRESS.
PlayerFairness ==
    \/ []<>(~(pc = "main" /\ progress = IN_PROGRESS))
    \/ []<><<PlayerMove>>_vars

SpecPlay ==
    /\ Init
    /\ [][NextPlay]_vars
    /\ WF_vars(\E size \in 1..MaxGameSize : \E tile \in WinTiles \cup {DEFAULT_WIN_TILE} :
                   main_start(size, tile))
    /\ WF_vars(main_end)
    /\ PlayerFairness

\* Lines of every content reduced again and again, and the games of the
\* drivers: every place where a score delta is produced and accumulated.
SpecLine == (InitLine \/ Init) /\ [][NextLine \/ Next]_vars

\* ------------------------------------------------------ properties: helpers

Cells(b) == {rc \in (1..Len(b)) \X (1..Len(b)) : TRUE}
EmptyCells(b) == {rc \in Cells(b) : b[rc[1]][rc[2]] = 0}
SumBoard(b) == SumSeq([r \in 1..Len(b) |-> SumSeq(b[r])])

RECURSIVE IsPowerOfTwo(_)
IsPowerOfTwo(v) == v >= 1 /\ (v = 1 \/ (v % 2 = 0 /\ IsPowerOfTwo(v \div 2)))

\* No tile can move or merge in any of the four directions.
Immobile(b) == \A direction \in Directions : ~is_move_possible_in_direction(b, direction)

\* The canonical slide-left and the exact composition of section 4.1.
slideLeft(b) == _apply_left_processing_to_all_lines(b)

Composed(b, direction) ==
    CASE direction = LEFT -> slideLeft(b).board
      [] direction = RIGHT -> reverse_rows(slideLeft(reverse_rows(b)).board)
      [] direction = UP -> transpose_board(slideLeft(transpose_board(b)).board)
      [] direction = DOWN ->
            transpose_board(reverse_rows(
                slideLeft(reverse_rows(transpose_board(b))).board))

ComposedScore(b, direction) ==
    CASE direction = LEFT -> slideLeft(b).score
      [] direction = RIGHT -> slideLeft(reverse_rows(b)).score
      [] direction = UP -> slideLeft(transpose_board(b)).score
      [] direction = DOWN -> slideLeft(reverse_rows(transpose_board(b))).score

\* The last two calls were process_move with one direction, the second on the
\* board the first returned.
MovedTwice ==
    /\ prev.op = "process_move"
    /\ last.op = "process_move"
    /\ prev.direction = last.direction

\* ------------------------------------------------------------- properties

\* C1: process_move reports changed exactly when is_move_possible_in_direction
\* holds of the same board and direction.
C1_ChangedIffMovePossible ==
    last.op = "process_move" =>
        (last.flag <=> is_move_possible_in_direction(last.board, last.direction))

C1_Witness ==
    /\ last.op = "process_move"
    /\ Len(last.board) = MaxSize
    /\ last.direction = DOWN
    /\ last.flag
    /\ last.score = 0
    /\ is_move_possible_in_direction(last.board, DOWN)

\* C2 as claimed: a second process_move with the same direction, applied to
\* the board the first returned, reports changed = false.
C2_SecondMoveUnchanged == MovedTwice => ~last.flag

\* C2 as amended: the second application never merely slides a tile: when it
\* reports changed it has merged (score delta > 0), and when the first
\* application merged nothing the second reports changed = false.
C2_SecondMoveOnlyMerges ==
    MovedTwice =>
        /\ last.flag => last.score > 0
        /\ prev.score = 0 => ~last.flag

C2_Witness ==
    /\ MovedTwice
    /\ prev.flag
    /\ prev.score = 0
    /\ ~last.flag
    /\ EmptyCells(last.board) # {}

\* C3: the cells of the board process_move returns sum to what the cells of
\* its input sum to.
C3_SumPreserved ==
    last.op = "process_move" => SumBoard(last.out) = SumBoard(last.board)

C3_Witness ==
    /\ last.op = "process_move"
    /\ last.direction = UP
    /\ last.score > 4
    /\ SumBoard(last.out) = SumBoard(last.board)

\* C4: determine_game_status is GAME_WON whenever a cell equals the win tile,
\* also on a full board where nothing can move.
C4_WinHasPriority ==
    (/\ last.op = "determine_game_status"
     /\ \E rc \in Cells(last.board) : last.board[rc[1]][rc[2]] = last.win_tile)
        => last.status = GAME_WON

C4_Witness ==
    /\ last.op = "determine_game_status"
    /\ Len(last.board) = MaxSize
    /\ EmptyCells(last.board) = {}
    /\ Immobile(last.board)
    /\ last.status = GAME_WON

\* C5 as claimed: determine_game_status is GAME_OVER exactly when the board has
\* no empty cell and no move is possible in any of the four directions.
C5_LostIffFullAndImmobile ==
    last.op = "determine_game_status" =>
        (last.status = GAME_OVER
            <=> (EmptyCells(last.board) = {} /\ Immobile(last.board)))

\* C5 as amended: determine_game_status is GAME_OVER exactly when no cell
\* equals the win tile, the board has no empty cell and no move is possible in
\* any of the four directions.
C5_LostIffNotWonFullAndImmobile ==
    last.op = "determine_game_status" =>
        (last.status = GAME_OVER
            <=> (/\ \A rc \in Cells(last.board) :
                        last.board[rc[1]][rc[2]] # last.win_tile
                 /\ EmptyCells(last.board) = {}
                 /\ Immobile(last.board)))

C5_Witness ==
    /\ last.op = "determine_game_status"
    /\ Len(last.board) = MaxSize
    /\ last.status = GAME_OVER

\* C6: the board and the score process_move returns are those of the exact
\* composition of the canonical slide-left with the geometry transforms, also
\* when nothing changed and the inverse transform was skipped.
C6_ExactComposition ==
    last.op = "process_move" =>
        /\ last.out = Composed(last.board, last.direction)
        /\ last.score = ComposedScore(last.board, last.direction)

C6_Witness ==
    /\ last.op = "process_move"
    /\ last.direction = DOWN
    /\ ~last.flag
    /\ last.board # transpose_board(last.board)
    /\ last.board # reverse_rows(last.board)
    /\ last.out = last.board

\* C7: once a game has started, the board is board_size rows of board_size
\* cells, each zero or a power of two.
C7_BoardWellFormed ==
    pc \in {"main", "api", "done"} =>
        /\ board_size >= 1
        /\ Len(board) = board_size
        /\ \A r \in 1..Len(board) :
              /\ Len(board[r]) = board_size
              /\ \A c \in 1..Len(board[r]) :
                    board[r][c] = 0 \/ IsPowerOfTwo(board[r][c])

C7_Witness ==
    /\ last.op = "main_move"
    /\ last.flag
    /\ last.added
    /\ \E rc \in Cells(board) : board[rc[1]][rc[2]] = 8

\* C8: add_random_tile on a board with no empty cell returns added = false and
\* the same board; otherwise added = true and a board that differs from the
\* input in exactly one cell, empty before and 2 or 4 after.
C8_AddRandomTileFrame ==
    last.op = "add_random_tile" =>
        /\ Len(last.out) = Len(last.board)
        /\ \A r \in 1..Len(last.out) : Len(last.out[r]) = Len(last.board[r])
        /\ IF EmptyCells(last.board) = {}
           THEN ~last.added /\ last.out = last.board
           ELSE /\ last.added
                /\ \E rc \in EmptyCells(last.board) :
                      /\ last.out[rc[1]][rc[2]] \in {2, 4}
                      /\ \A other \in Cells(last.board) \ {rc} :
                            last.out[other[1]][other[2]]
                                = last.board[other[1]][other[2]]

C8_Witness ==
    /\ last.op = "add_random_tile"
    /\ Len(last.board) = MaxSize
    /\ Cardinality(EmptyCells(last.board)) = 1
    /\ last.added
    /\ \E rc \in EmptyCells(last.board) : last.out[rc[1]][rc[2]] = 4

\* C9 as claimed: initialize_board of a positive size returns a board of that
\* size with exactly two non-zero tiles, each 2 or 4, and score 0.
C9_TwoInitialTiles ==
    (last.op = "initialize_board" /\ last.size >= 1) =>
        /\ Len(last.out) = last.size
        /\ \A r \in 1..Len(last.out) : Len(last.out[r]) = last.size
        /\ Cardinality(Cells(last.out) \ EmptyCells(last.out)) = 2
        /\ \A rc \in Cells(last.out) : last.out[rc[1]][rc[2]] \in {0, 2, 4}
        /\ last.score = 0

\* C10 as claimed: the progress start_new_game reports for a fresh game is
\* IN_PROGRESS for every size and win tile it accepts.
C10_FreshGameInProgress ==
    last.op = "start_new_game" => last.status = IN_PROGRESS

\* C11: process_move raises ValueError exactly when the direction is no member
\* of DIRECTION or the board is no non-empty square grid; otherwise it returns
\* a result whatever the cells hold, and changed = false when no move is
\* possible in any direction.
C11_RaisesIffInvalidArgument ==
    last.op = "process_move" =>
        /\ last.raised <=> (\/ last.direction \notin {UP, DOWN, LEFT, RIGHT}
                            \/ Len(last.board) = 0
                            \/ \E r \in 1..Len(last.board) :
                                  Len(last.board[r]) # Len(last.board))
        /\ ~last.raised =>
              /\ Len(last.out) = Len(last.board)
              /\ Immobile(last.board) => (~last.flag /\ last.out = last.board)

C11_Witness ==
    /\ last.op = "process_move"
    /\ ~last.raised
    /\ Len(last.board) = MaxSize
    /\ EmptyCells(last.board) = {}
    /\ Immobile(last.board)
    /\ ~last.flag

\* C12: process_move reports changed = true exactly when the board it returns
\* differs in content from the board it was given; when it reports false the
\* returned board equals the given one and the score delta is 0; and the
\* caller's board is the same after the call as before it.
C12_ChangedIffBoardDiffers ==
    (last.op = "process_move" /\ ~last.raised) =>
        /\ last.flag <=> (last.out # last.board)
        /\ ~last.flag => (last.out = last.board /\ last.score = 0)
        /\ last.input = last.board

\* A move that changes one row and leaves the row processed last alone.
C12_Witness ==
    /\ last.op = "process_move"
    /\ ~last.raised
    /\ last.direction = LEFT
    /\ Len(last.board) = MaxSize
    /\ last.flag
    /\ last.out # last.board
    /\ last.out[MaxSize] = last.board[MaxSize]
    /\ last.input = last.board

\* The tiles of a line paired off from the left: a tile equal to its right
\* neighbour forms one doubled tile with it, and the pairing goes on behind
\* the pair, so that no tile takes part in two merges.
RECURSIVE PairOff(_)
PairOff(tiles) ==
    IF Len(tiles) = 0
    THEN <<>>
    ELSE IF Len(tiles) >= 2 /\ tiles[1] = tiles[2]
    THEN <<[value |-> 2 * tiles[1], merged |-> TRUE]>> \o PairOff(Tail(Tail(tiles)))
    ELSE <<[value |-> tiles[1], merged |-> FALSE]>> \o PairOff(Tail(tiles))

LineReduced ==
    last.op = "line" =>
        LET line == last.board[1]
            out == last.out[1]
            p == PairOff(SelectSeq(line, LAMBDA v : v # 0))
        IN  /\ Len(out) = Len(line)
            /\ \A i \in 1..Len(out) : out[i] = IF i <= Len(p) THEN p[i].value ELSE 0
            /\ \A i, j \in 1..Len(out) : (i < j /\ out[i] = 0) => out[j] = 0
            /\ last.score = SumSeq([i \in 1..Len(p) |->
                                       IF p[i].merged THEN p[i].value ELSE 0])
            /\ last.score >= 0
            /\ (/\ Len(line) = 4
                /\ line[1] # 0
                /\ \A i \in 1..4 : line[i] = line[1])
               => (out = <<2 * line[1], 2 * line[1], 0, 0>> /\ last.score = 4 * line[1])

\* C13: the line reducer pairs the tiles off in one pass from the left: two
\* equal neighbours become one doubled tile, the partner is consumed and the
\* doubled tile merges no further (v,v,v,v gives 2v,2v,0,0); the output has its
\* non-zero cells before its zeros; the score delta is the sum of the doubled
\* tiles and is never negative; and the accumulated score never decreases.
C13_SinglePassMerge == []LineReduced /\ [][score' >= score]_vars

C13_Witness ==
    /\ last.op = "line"
    /\ last.board = << <<2, 2, 2, 2>> >>
    /\ last.out = << <<4, 4, 0, 0>> >>
    /\ last.score = 8
    /\ score = 8

\* The lines of a board in the order a move in a direction reads them.
LinesAlong(b, direction) ==
    IF direction = LEFT THEN b
    ELSE IF direction = RIGHT THEN reverse_rows(b)
    ELSE IF direction = UP THEN transpose_board(b)
    ELSE reverse_rows(transpose_board(b))

\* The number of merges a move in a direction makes on a board.
Merges(b, direction) ==
    LET lines == LinesAlong(b, direction)
        count(line) == Len(SelectSeq(PairOff(SelectSeq(line, LAMBDA v : v # 0)),
                                     LAMBDA t : t.merged))
    IN  SumSeq([r \in 1..Len(lines) |-> count(lines[r])])

\* C14: a move never decreases the number of empty cells and each merge adds
\* one; when process_move reports changed = true the returned board has at
\* least one empty cell, so that add_random_tile on it returns added = true for
\* every draw, and no move of a driver meets a tile that could not be added.
C14_EffectiveMoveLeavesRoom ==
    /\ (last.op = "process_move" /\ ~last.raised) =>
          /\ Cardinality(EmptyCells(last.out)) =
                 Cardinality(EmptyCells(last.board)) + Merges(last.board, last.direction)
          /\ last.flag =>
                /\ EmptyCells(last.out) # {}
                /\ \A d \in Draws(last.out) :
                       add_random_tile(last.out, d[1], d[2]).added
    /\ (last.op \in {"main_move", "make_move"} /\ last.flag) =>
          /\ EmptyCells(last.out) # {}
          /\ last.added

\* A game in which a merge on a full board makes the only room for the tile.
C14_Witness ==
    /\ last.op = "main_move"
    /\ last.flag
    /\ EmptyCells(last.board) = {}
    /\ Cardinality(EmptyCells(last.out)) = 1
    /\ last.added
    /\ EmptyCells(board) = {}

Terminal == {GAME_WON, GAME_OVER}

\* C15: in the loop of the driver every effective move strictly increases the
\* sum of the board, only finitely many of them are possible, and a game whose
\* player keeps entering a direction in which a move is possible whenever there
\* is one reaches GAME_WON or GAME_OVER and leaves the loop; once the state is
\* not IN_PROGRESS the loop processes no further move.
C15_GameTerminates ==
    /\ <>(pc = "done" /\ progress \in Terminal)
    /\ [][(pc = "main" /\ board' # board) => SumBoard(board') > SumBoard(board)]_vars
    /\ [][(progress \in Terminal) => UNCHANGED <<board, score, progress>>]_vars

\* A game for the tile main plays for, ended on a stuck board after merges.
C15_Witness ==
    /\ pc = "done"
    /\ progress = GAME_OVER
    /\ win_tile = DEFAULT_WIN_TILE
    /\ board_size = MaxGameSize
    /\ score > 0
    /\ last.op = "main_move"
    /\ last.flag

====
